---- MODULE Spec2Model ----
(***************************************************************************)
(* A model of core.js of sqlite-wasm-minimal-demo: the lazily loaded       *)
(* module singleton (load / getASM), the allocator bridge (alloc, dealloc, *)
(* realloc, the pstack calls), the string marshaller over the module-level *)
(* views heap, heap32 (alloc_str, cstrend, cstrlen, cstr_to_js, peek_ptr)  *)
(* and the trampoline builder (to_funcref, func_to_wasm, install_function).*)
(*                                                                         *)
(* JavaScript values are modelled by tagged records (JsNum, JsFunc, ...),  *)
(* strings by sequences of code points, linear memory by a sequence of     *)
(* bytes (address a is mem[a+1]).  The linked sqlite3.wasm module is the   *)
(* environment: its exports answer nondeterministically within what the    *)
(* WebAssembly interface allows.                                           *)
(***************************************************************************)
EXTENDS Integers, Sequences, FiniteSets, TLC

\* ---------------------------------------------------------------- bounds
MaxLoads == 3        \* load() calls explored
MemSize == 4         \* bytes of linear memory at construction
MaxGrow == 1         \* memory.grow events explored
MaxN == 2            \* largest size passed to alloc / realloc
MaxLive == 1         \* allocations the module's heap holds before it is exhausted
MaxTable == 3        \* longest indirect-call table explored
MaxByte == 3         \* largest byte value the module pokes into memory

\* ------------------------------------------------- the module's constants
InitTableLen == 1    \* slots the module's table has at instantiation
PStackBegin == 8     \* PStack.pBegin of the module
PStackEnd == 24      \* PStack.pEnd of the module
PStackAlign == 8     \* pstack allocations are rounded up to 8 bytes

VARIABLES
    instance,   \* `let instance = null`: 0 is null, l > 0 the instance linked by load l
    loadPc,     \* per load() call: "idle", "await", "resolved", "rejected"
    ctorCalls,  \* per instance: calls made to its __wasm_call_ctors export
    mem,        \* the bytes of memory.buffer
    bufGen,     \* how many times memory.buffer was replaced by a growth
    live,       \* pointers the stored instance's allocator has handed out
    table,      \* __indirect_function_table of the stored instance
    pstackPos,  \* PStack.pPos of the stored instance
    mark,       \* the caller's checkpoint: what pstack_ptr() last returned
    markPos,    \* PStack.pPos at the time of that pstack_ptr() call
    markOpen,   \* only pstack_alloc calls were made on the pstack since that call
    last        \* the last call of the API: arguments, outcome, module calls made

vars == <<instance, loadPc, ctorCalls, mem, bufGen, live, table, pstackPos,
          mark, markPos, markOpen, last>>

Loads == 1..MaxLoads
Bytes == 0..MaxByte

\* ------------------------------------------------------------ JS values
JsNum(n) == [kind |-> "num", val |-> n, len |-> 0, str |-> <<>>, err |-> ""]
\* an export function object (fn names it through err)
JsFunc(f) == [kind |-> "func", val |-> 0, len |-> 0, str |-> <<>>, err |-> f]
\* the WebAssembly.Table / exports object of instance i
JsObj(i) == [kind |-> "object", val |-> i, len |-> 0, str |-> <<>>, err |-> ""]
JsPair(p, l) == [kind |-> "pair", val |-> p, len |-> l, str |-> <<>>, err |-> ""]
JsStr(s) == [kind |-> "str", val |-> 0, len |-> 0, str |-> s, err |-> ""]
JsUndefined == [kind |-> "undefined", val |-> 0, len |-> 0, str |-> <<>>, err |-> ""]
Throw(e) == [kind |-> "throw", val |-> 0, len |-> 0, str |-> <<>>, err |-> e]
\* the call never returns (a loop that does not terminate)
Hang == [kind |-> "hang", val |-> 0, len |-> 0, str |-> <<>>, err |-> ""]

\* ToInt32 of a JS value, as applied to an argument of a wasm export taking i32
ToInt32(v) == IF v.kind = "num" THEN v.val ELSE 0

NotInitialized == Throw("not initialized")

\* a call of an export of the module: its argument and what it returned
Call(f, a, r) == [fn |-> f, arg |-> a, ret |-> r]

\* one call of the API, with the state it started from
Op(name, n, m, s, res, calls, compiled, stale) ==
    [op |-> name, n |-> n, m |-> m, s |-> s, inst |-> instance,
     tlen |-> Len(table), res |-> res, calls |-> calls,
     compiled |-> compiled, stale |-> stale]

NoOp == [op |-> "none", n |-> 0, m |-> 0, s |-> <<>>, inst |-> 0, tlen |-> 0,
         res |-> JsUndefined, calls |-> <<>>, compiled |-> FALSE, stale |-> FALSE]

\* ----------------------------------------------------------------- Init
ZeroMem(n) == [i \in 1..n |-> 0]
\* slots of the table: a function compiled into the module, an empty slot
NativeSlot == [f |-> "native", ts |-> <<>>]
NullSlot == [f |-> "null", ts |-> <<>>]
InitTable == [i \in 1..InitTableLen |-> NativeSlot]

Init ==
    /\ instance = 0
    /\ loadPc = [l \in Loads |-> "idle"]
    /\ ctorCalls = [l \in Loads |-> 0]
    /\ mem = ZeroMem(MemSize)
    /\ bufGen = 0
    /\ live = {}
    /\ table = InitTable
    /\ pstackPos = PStackEnd
    /\ mark = JsUndefined
    /\ markPos = 0
    /\ markOpen = FALSE
    /\ last = NoOp

\* ----------------------------------------------------------------- load
\* load() up to its await: the instantiation is started
LoadStart(l) ==
    /\ loadPc[l] = "idle"
    /\ loadPc' = [loadPc EXCEPT ![l] = "await"]
    /\ UNCHANGED <<instance, ctorCalls, mem, bufGen, live, table, pstackPos,
                   mark, markPos, markOpen, last>>

\* instantiateStreaming resolves: instance = src.instance; return instance.exports
LoadResolve(l) ==
    /\ loadPc[l] = "await"
    /\ loadPc' = [loadPc EXCEPT ![l] = "resolved"]
    /\ instance' = l
    /\ live' = {}
    /\ table' = InitTable
    /\ pstackPos' = PStackEnd
    /\ last' = [Op("load", l, 0, <<>>, JsObj(l), <<>>, FALSE, FALSE)
                  EXCEPT !.tlen = 0]
    /\ markOpen' = FALSE
    /\ UNCHANGED <<ctorCalls, mem, bufGen, mark, markPos>>

\* instantiateStreaming rejects (fetch or link failure): load() rejects
LoadReject_clearing(l) ==
    /\ loadPc[l] = "await"
    /\ loadPc' = [loadPc EXCEPT ![l] = "rejected"]
    /\ instance' = 0
    /\ last' = [Op("load", l, 0, <<>>, Throw("LinkError"), <<>>, FALSE, FALSE)
                  EXCEPT !.tlen = 0]
    /\ UNCHANGED <<ctorCalls, mem, bufGen, live, table, pstackPos,
                   mark, markPos, markOpen>>
LoadReject(l) ==
    /\ loadPc[l] = "await"
    /\ loadPc' = [loadPc EXCEPT ![l] = "rejected"]
    /\ last' = [Op("load", l, 0, <<>>, Throw("LinkError"), <<>>, FALSE, FALSE)
                  EXCEPT !.tlen = 0]
    /\ UNCHANGED <<instance, ctorCalls, mem, bufGen, live, table, pstackPos,
                   mark, markPos, markOpen>>

\* getASM(): instance?.exports ?? abort('not initialized')
getASM_ok_unguarded == TRUE
getASM_ok == instance # 0

\* ------------------------------------------------------ allocator bridge
Sizes == 0..MaxN
MemLen == Len(mem)
Ptrs == 0..MemLen

\* the buffer after the module has (g) or has not grown it during a call
MemAfter(g) == IF g THEN Append(mem, 0) ELSE mem
GenAfter(g) == IF g THEN bufGen + 1 ELSE bufGen
MayGrow(g) == g => bufGen < MaxGrow

\* sqlite3_malloc(n) / sqlite3_realloc(m, n) of the module: null, or a pointer
\* not handed out yet whose n bytes lie inside (the possibly grown) memory;
\* sqlite3_realloc(m, n) with n <= 0 frees m and returns null
ModuleMalloc(n, r, g) ==
    /\ MayGrow(g)
    /\ \/ r = 0
       \/ /\ n > 0
          /\ Cardinality(live) < MaxLive
          /\ r \in 1..MemLen
          /\ r \notin live
          /\ r + n <= Len(MemAfter(g))
ModuleRealloc(m, n, r, g) ==
    /\ MayGrow(g)
    /\ \/ r = 0
       \/ /\ n > 0
          /\ Cardinality(live \ {m}) < MaxLive
          /\ r \in 1..MemLen
          /\ r \notin (live \ {m})
          /\ r + n <= Len(MemAfter(g))

\* `x || abort(msg)`
OrAbort_unchecked(x, msg) == JsNum(x)
OrAbort(x, msg) == IF x # 0 THEN JsNum(x) ELSE Throw(msg)

\* alloc(n): getASM().sqlite3_malloc(n) || abort(`alloc(${n}) failed`)
Alloc(n) ==
    IF ~getASM_ok
    THEN /\ last' = Op("alloc", n, 0, <<>>, NotInitialized, <<>>, FALSE, FALSE)
         /\ UNCHANGED <<instance, loadPc, ctorCalls, mem, bufGen, live, table,
                        pstackPos, mark, markPos, markOpen>>
    ELSE \E r \in Ptrs, g \in BOOLEAN :
         /\ ModuleMalloc(n, r, g)
         /\ live' = IF r # 0 THEN live \cup {r} ELSE live
         /\ mem' = MemAfter(g)
         /\ bufGen' = GenAfter(g)
         /\ last' = Op("alloc", n, 0, <<>>, OrAbort(r, "alloc failed"),
                       <<Call("sqlite3_malloc", n, r)>>, FALSE, FALSE)
         /\ UNCHANGED <<instance, loadPc, ctorCalls, table, pstackPos,
                        mark, markPos, markOpen>>

\* dealloc(n): getASM().sqlite3_free(n)
Dealloc(p) ==
    IF ~getASM_ok
    THEN /\ last' = Op("dealloc", p, 0, <<>>, NotInitialized, <<>>, FALSE, FALSE)
         /\ UNCHANGED <<instance, loadPc, ctorCalls, mem, bufGen, live, table,
                        pstackPos, mark, markPos, markOpen>>
    ELSE /\ live' = live \ {p}
         /\ last' = Op("dealloc", p, 0, <<>>, JsUndefined,
                       <<Call("sqlite3_free", p, 0)>>, FALSE, FALSE)
         /\ UNCHANGED <<instance, loadPc, ctorCalls, mem, bufGen, table,
                        pstackPos, mark, markPos, markOpen>>

\* `if (!n) return 0` of realloc
realloc_zero_forwarded(n) == FALSE
realloc_zero(n) == n = 0

\* realloc(m, n)
Realloc(m, n) ==
    IF realloc_zero(n)
    THEN /\ last' = Op("realloc", n, m, <<>>, JsNum(0), <<>>, FALSE, FALSE)
         /\ UNCHANGED <<instance, loadPc, ctorCalls, mem, bufGen, live, table,
                        pstackPos, mark, markPos, markOpen>>
    ELSE IF ~getASM_ok
    THEN /\ last' = Op("realloc", n, m, <<>>, NotInitialized, <<>>, FALSE, FALSE)
         /\ UNCHANGED <<instance, loadPc, ctorCalls, mem, bufGen, live, table,
                        pstackPos, mark, markPos, markOpen>>
    ELSE \E r \in Ptrs, g \in BOOLEAN :
         /\ ModuleRealloc(m, n, r, g)
         /\ live' = IF r # 0 THEN (live \ {m}) \cup {r}
                    ELSE IF n <= 0 THEN live \ {m} ELSE live
         /\ mem' = MemAfter(g)
         /\ bufGen' = GenAfter(g)
         /\ last' = Op("realloc", n, m, <<>>, OrAbort(r, "realloc failed"),
                       <<Call("sqlite3_realloc", n, r)>>, FALSE, FALSE)
         /\ UNCHANGED <<instance, loadPc, ctorCalls, table, pstackPos,
                        mark, markPos, markOpen>>

\* --------------------------------------------------------- scratch stack
\* sqlite3_wasm_pstack_alloc(n) of the module: the new PStack.pPos, or null
RoundUp(n) == ((n + PStackAlign - 1) \div PStackAlign) * PStackAlign
ModulePstackAlloc(n) ==
    IF n <= 0 \/ PStackBegin + RoundUp(n) > pstackPos THEN 0
    ELSE pstackPos - RoundUp(n)

\* sqlite3_wasm_pstack_restore(p) of the module: PStack.pPos after the call
ModulePstackRestore(p) ==
    IF p >= PStackBegin /\ p <= PStackEnd THEN p ELSE pstackPos

\* pstack_alloc(n)
PstackAlloc(n) ==
    IF ~getASM_ok
    THEN /\ last' = Op("pstack_alloc", n, 0, <<>>, NotInitialized, <<>>, FALSE, FALSE)
         /\ UNCHANGED <<instance, loadPc, ctorCalls, mem, bufGen, live, table,
                        pstackPos, mark, markPos, markOpen>>
    ELSE LET r == ModulePstackAlloc(n) IN
         /\ pstackPos' = IF r # 0 THEN r ELSE pstackPos
         /\ last' = Op("pstack_alloc", n, 0, <<>>, OrAbort(r, "pstack.alloc failed"),
                       <<Call("sqlite3_wasm_pstack_alloc", n, r)>>, FALSE, FALSE)
         /\ UNCHANGED <<instance, loadPc, ctorCalls, mem, bufGen, live, table,
                        mark, markPos, markOpen>>

\* what pstack_ptr() evaluates to: `getASM().sqlite3_wasm_pstack_ptr`
pstack_ptr_value == JsFunc("sqlite3_wasm_pstack_ptr")

\* pstack_ptr(); the caller keeps the result as its checkpoint
PstackPtr ==
    IF ~getASM_ok
    THEN /\ last' = Op("pstack_ptr", 0, 0, <<>>, NotInitialized, <<>>, FALSE, FALSE)
         /\ UNCHANGED <<instance, loadPc, ctorCalls, mem, bufGen, live, table,
                        pstackPos, mark, markPos, markOpen>>
    ELSE /\ mark' = pstack_ptr_value
         /\ markPos' = pstackPos
         /\ markOpen' = TRUE
         /\ last' = Op("pstack_ptr", 0, 0, <<>>, pstack_ptr_value, <<>>, FALSE, FALSE)
         /\ UNCHANGED <<instance, loadPc, ctorCalls, mem, bufGen, live, table,
                        pstackPos>>

\* pstack_restore(v): getASM().sqlite3_wasm_pstack_restore(v); last.m = 1 when
\* v is the checkpoint and only pstack_alloc calls came after it was taken
PstackRestore(v) ==
    IF ~getASM_ok
    THEN /\ last' = Op("pstack_restore", ToInt32(v), 0, <<>>, NotInitialized,
                       <<>>, FALSE, FALSE)
         /\ UNCHANGED <<instance, loadPc, ctorCalls, mem, bufGen, live, table,
                        pstackPos, mark, markPos, markOpen>>
    ELSE /\ pstackPos' = ModulePstackRestore(ToInt32(v))
         /\ markOpen' = FALSE
         /\ last' = Op("pstack_restore", ToInt32(v),
                       IF markOpen /\ v = mark THEN 1 ELSE 0, <<>>, JsUndefined,
                       <<Call("sqlite3_wasm_pstack_restore", ToInt32(v), 0)>>,
                       FALSE, FALSE)
         /\ UNCHANGED <<instance, loadPc, ctorCalls, mem, bufGen, live, table,
                        mark, markPos>>

PstackSizes == {0, 1, PStackAlign}
PstackPositions == {p \in PStackBegin..PStackEnd : p % PStackAlign = 0}
\* what a caller may hand to pstack_restore: its checkpoint, or a position
RestoreArgs == {v \in {mark} : v.kind # "undefined"} \cup {JsNum(p) : p \in PstackPositions}

\* function_table(): getASM().__indirect_function_table
FunctionTable ==
    /\ last' = Op("function_table", 0, 0, <<>>,
                  IF getASM_ok THEN JsObj(instance) ELSE NotInitialized,
                  <<>>, FALSE, FALSE)
    /\ UNCHANGED <<instance, loadPc, ctorCalls, mem, bufGen, live, table,
                   pstackPos, mark, markPos, markOpen>>

\* ------------------------------------------------------ string marshaller
\* Code points: 0 is U+0000, 1 a one-byte (ASCII) character, 2 a two-byte
\* character (lead byte 2, continuation byte 3); 9 is U+FFFD, which
\* DECODER.decode puts in place of each byte that starts no character.
\* The strings marshalled are made of the characters 1 and 2.
Chars == {1, 2}
MaxStr == 2          \* longest string marshalled, in characters
MaxMax == 1          \* largest max passed to alloc_str
Strings == UNION {[1..k -> Chars] : k \in 0..MaxStr}

Min(a, b) == IF a < b THEN a ELSE b

\* ENCODER.encode(str)
EncodeChar(c) == IF c = 2 THEN <<2, 3>> ELSE <<c>>
RECURSIVE Encode(_)
Encode(s) == IF s = <<>> THEN <<>> ELSE EncodeChar(Head(s)) \o Encode(Tail(s))

\* DECODER.decode(bytes)
RECURSIVE Decode(_)
Decode(b) ==
    IF b = <<>> THEN <<>>
    ELSE IF Head(b) \in {0, 1} THEN <<Head(b)>> \o Decode(Tail(b))
    ELSE IF Head(b) = 2 /\ Len(b) >= 2 /\ b[2] = 3 THEN <<2>> \o Decode(Tail(Tail(b)))
    ELSE <<9>> \o Decode(Tail(b))

\* `heap` and `heap32` are created once, over the buffer memory has at
\* construction; a growth replaces memory.buffer and detaches that buffer
HeapDetached(gen) == gen # 0

\* heap[a] on buffer contents m: -1 stands for undefined
HeapGet(m, gen, a) ==
    IF HeapDetached(gen) \/ a < 0 \/ a >= Len(m) THEN -1 ELSE m[a + 1]

\* the loop of cstrend from index p on: -1 when no examined element is 0,
\* so that the loop never ends
RECURSIVE Scan(_, _, _)
Scan(m, gen, p) ==
    IF HeapGet(m, gen, p) = 0 THEN p
    ELSE IF HeapGet(m, gen, p) = -1 THEN -1
    ELSE Scan(m, gen, p + 1)

\* cstrend(ptr): while (heap[++ptr] !== 0) {}
cstrend(m, gen, ptr) == Scan(m, gen, ptr + 1)

\* heap.slice(a, b)
HeapSlice(m, a, b) == [i \in 1..(b - a) |-> m[a + i]]

\* cstr_to_js(ptr) on buffer contents m
cstr_to_js(m, gen, ptr) ==
    LET end == cstrend(m, gen, ptr) IN
    IF end = -1 THEN Hang
    ELSE IF ptr = end THEN JsStr(<<>>)
    ELSE JsStr(Decode(HeapSlice(m, ptr, end)))

\* cstrlen(ptr): ptr - cstrend(ptr)
cstrlen(m, gen, ptr) ==
    LET end == cstrend(m, gen, ptr) IN
    IF end = -1 THEN Hang ELSE JsNum(ptr - end)

\* heap32[ptr >> 2]: the little-endian signed word, undefined outside the view
peek_ptr(m, gen, ptr) ==
    LET w == ptr \div 4
        top == m[4*w + 4]
        v == m[4*w + 1] + 256 * m[4*w + 2] + 65536 * m[4*w + 3]
             + 16777216 * (IF top >= 128 THEN top - 256 ELSE top) IN
    IF HeapDetached(gen) \/ w >= MemSize \div 4 THEN JsUndefined ELSE JsNum(v)

CstrToJs(ptr) ==
    /\ last' = Op("cstr_to_js", ptr, 0, <<>>, cstr_to_js(mem, bufGen, ptr),
                  <<>>, FALSE, HeapDetached(bufGen))
    /\ UNCHANGED <<instance, loadPc, ctorCalls, mem, bufGen, live, table,
                   pstackPos, mark, markPos, markOpen>>

Cstrlen(ptr) ==
    /\ last' = Op("cstrlen", ptr, 0, <<>>, cstrlen(mem, bufGen, ptr),
                  <<>>, FALSE, HeapDetached(bufGen))
    /\ UNCHANGED <<instance, loadPc, ctorCalls, mem, bufGen, live, table,
                   pstackPos, mark, markPos, markOpen>>

PeekPtr(ptr) ==
    /\ last' = Op("peek_ptr", ptr, 0, <<>>, peek_ptr(mem, bufGen, ptr),
                  <<>>, FALSE, HeapDetached(bufGen))
    /\ UNCHANGED <<instance, loadPc, ctorCalls, mem, bufGen, live, table,
                   pstackPos, mark, markPos, markOpen>>

\* len of alloc_str: max > 0 ? Math.min(max, raw.length) : raw.length
\* (an absent max is 0 here: `undefined > 0` is false as `0 > 0` is)
StrLen(raw, max) == IF max > 0 THEN Min(max, Len(raw)) ELSE Len(raw)

\* the bytes heap.set(raw, ptr) copies
HeapSetSource(raw, len) == raw

\* heap.set(src, p) on buffer contents m
HeapSet(m, src, p) ==
    [i \in 1..Len(m) |-> IF i > p /\ i <= p + Len(src) THEN src[i - p] ELSE m[i]]

\* heap[a] = 0: ignored outside the view
HeapPutZero(m, a) ==
    [i \in 1..Len(m) |-> IF i = a + 1 THEN 0 ELSE m[i]]

\* alloc_str from `heap.set(raw, ptr)` on, with p the destination, m and gen
\* the buffer at that point: the outcome and the buffer contents left behind
AllocStrWrite(raw, len, p, m, gen) ==
    LET src == HeapSetSource(raw, len) IN
    IF HeapDetached(gen) THEN [res |-> Throw("TypeError"), mem |-> m]
    ELSE IF p + Len(src) > Len(m) THEN [res |-> Throw("RangeError"), mem |-> m]
    ELSE [res |-> JsPair(p, len), mem |-> HeapPutZero(HeapSet(m, src, p), p + len)]

\* alloc_str(str, ptr, max); ptr = 0 is an absent destination (`!ptr`)
AllocStr(str, ptr, max) ==
    LET raw == Encode(str)
        len == StrLen(raw, max) IN
    IF ptr # 0
    THEN LET w == AllocStrWrite(raw, len, ptr, mem, bufGen) IN
         /\ mem' = w.mem
         /\ last' = Op("alloc_str", ptr, max, str, w.res, <<>>, FALSE,
                       HeapDetached(bufGen))
         /\ UNCHANGED <<instance, loadPc, ctorCalls, bufGen, live, table,
                        pstackPos, mark, markPos, markOpen>>
    ELSE IF ~getASM_ok
    THEN /\ last' = Op("alloc_str", ptr, max, str, NotInitialized, <<>>, FALSE, FALSE)
         /\ UNCHANGED <<instance, loadPc, ctorCalls, mem, bufGen, live, table,
                        pstackPos, mark, markPos, markOpen>>
    ELSE \E r \in Ptrs, g \in BOOLEAN :
         LET w == AllocStrWrite(raw, len, r, MemAfter(g), GenAfter(g))
             a == OrAbort(r, "alloc failed") IN
         /\ ModuleMalloc(len + 1, r, g)
         /\ live' = IF r # 0 THEN live \cup {r} ELSE live
         /\ bufGen' = GenAfter(g)
         /\ mem' = IF a.kind = "throw" THEN MemAfter(g) ELSE w.mem
         /\ last' = Op("alloc_str", ptr, max, str,
                       IF a.kind = "throw" THEN a ELSE w.res,
                       <<Call("sqlite3_malloc", len + 1, r)>>, FALSE,
                       a.kind # "throw" /\ HeapDetached(GenAfter(g)))
         /\ UNCHANGED <<instance, loadPc, ctorCalls, table, pstackPos,
                        mark, markPos, markOpen>>

\* an export of the module called directly by the demo (sqlite3_open_v2,
\* sqlite3_exec, ...): it may write memory
DomainCall(a, b) ==
    /\ getASM_ok
    /\ mem' = [mem EXCEPT ![a + 1] = b]
    /\ last' = Op("domain_call", 0, 0, <<>>, JsNum(0), <<>>, FALSE, FALSE)
    /\ UNCHANGED <<instance, loadPc, ctorCalls, bufGen, live, table,
                   pstackPos, mark, markPos, markOpen>>

\* ----------------------------------------------------- trampoline builder
\* typeCodes[x]; -1 stands for undefined
typeCode(x) ==
    CASE x = "f64" -> 124
      [] x = "f32" -> 125
      [] x = "i64" -> 126
      [] x = "i32" -> 127
      [] OTHER -> -1

\* sigTypes[x]
sigType(x) ==
    CASE x \in {"i", "p", "s"} -> "i32"
      [] x = "j" -> "i64"
      [] x = "f" -> "f32"
      [] x = "d" -> "f64"
      [] OTHER -> "undefined"

\* letterCode(x): typeCodes[sigTypes[x]]
letterCode(x) == typeCode(sigType(x))

\* encodeBytes(n)
encodeBytes(n) == IF n < 128 THEN <<n>> ELSE <<n % 128, n \div 128>>

\* an element of the array literal as new Uint8Array stores it: undefined -> 0
ToUint8(v) == IF v = -1 THEN 0 ELSE v % 256

\* characters of the signatures explored; \w matches the letters among them
WordChars == {"i", "p", "s", "j", "f", "d", "v", "x"}

\* rxJSig = /^(\w)\((\w*)\)$/
rxJSig(sig) ==
    /\ Len(sig) >= 3
    /\ sig[1] \in WordChars
    /\ sig[2] = "("
    /\ sig[Len(sig)] = ")"
    /\ \A i \in 3..(Len(sig) - 1) : sig[i] \in WordChars

\* sig[0]: "" stands for undefined
SigHead(sig) == IF sig = <<>> THEN "" ELSE sig[1]

\* sp of func_to_wasm: m ? m[2] : sig.slice(1)
SigParams(sig) ==
    IF rxJSig(sig) THEN SubSeq(sig, 3, Len(sig) - 1) ELSE SubSeq(sig, 2, Len(sig))

\* typeSection of func_to_wasm
SigTypeSection(sig) ==
    LET sp == SigParams(sig) IN
    <<1, 96>> \o encodeBytes(Len(sp)) \o [i \in 1..Len(sp) |-> letterCode(sp[i])]
    \o (IF SigHead(sig) = "v" THEN <<0>> ELSE <<1, letterCode(SigHead(sig))>>)

\* typeSection of to_funcref; resultType "null" is null
TypedTypeSection(resultType, argTypes) ==
    <<1, 96>> \o encodeBytes(Len(argTypes))
    \o [i \in 1..Len(argTypes) |-> typeCode(argTypes[i])]
    \o (IF resultType = "null" THEN <<0>> ELSE <<1, typeCode(resultType)>>)

WasmHeader == <<0, 97, 115, 109, 1, 0, 0, 0>>
WasmImportExport == <<2, 7, 1, 1, 101, 1, 102, 0, 0, 7, 5, 1, 1, 102, 0, 0>>

\* the Uint8Array handed to new WebAssembly.Module
Bytecode(typeSection) ==
    LET a == WasmHeader \o <<1>> \o encodeBytes(Len(typeSection)) \o typeSection
             \o WasmImportExport IN
    [i \in 1..Len(a) |-> ToUint8(a[i])]

IsValType(b) == b \in 124..127

\* a type section holding one function type: 0x60, the parameter types, the
\* result types, and nothing else
ValidTypeSection(ts) ==
    /\ Len(ts) >= 4
    /\ ts[1] = 1
    /\ ts[2] = 96
    /\ ts[3] < 128
    /\ Len(ts) >= 4 + ts[3]
    /\ \A i \in 4..(3 + ts[3]) : IsValType(ts[i])
    /\ LET r == ts[4 + ts[3]] IN
       /\ r \in {0, 1}
       /\ Len(ts) = 4 + ts[3] + r
       /\ r = 1 => IsValType(ts[Len(ts)])

\* new WebAssembly.Module(arr) does not throw CompileError
CompileOk(arr) ==
    /\ Len(arr) > 10
    /\ SubSeq(arr, 1, 8) = WasmHeader
    /\ arr[9] = 1
    /\ arr[10] < 128
    /\ Len(arr) = 10 + arr[10] + Len(WasmImportExport)
    /\ ValidTypeSection(SubSeq(arr, 11, 10 + arr[10]))
    /\ SubSeq(arr, 11 + arr[10], Len(arr)) = WasmImportExport

\* host values handed in as func: a function, and a value that is not callable
HostVals == {"cb", "notfn"}
\* new WebAssembly.Instance(mod, { e: { f: func } }) links
Callable(func) == func = "cb"

\* the funcref exported by the synthesized module
Funcref(func, typeSection) == [f |-> func, ts |-> typeSection]

\* func_to_wasm / to_funcref from the built typeSection on
to_funcref(func, typeSection) ==
    IF ~CompileOk(Bytecode(typeSection)) THEN Throw("CompileError")
    ELSE IF ~Callable(func) THEN Throw("LinkError")
    ELSE JsNum(0)

\* ft.grow(d)
TableGrow_twice(t, d) == t \o [i \in 1..(d + 1) |-> NullSlot]
TableGrow(t, d) == t \o [i \in 1..d |-> NullSlot]

\* ft.set(ptr, ref)
TableSet(t, ptr, ref) == [t EXCEPT ![ptr + 1] = ref]

\* install_function from `const ft = function_table()` on, for either variant
Install(name, func, s, typeSection) ==
    IF ~getASM_ok
    THEN /\ last' = Op(name, 0, 0, s, NotInitialized, <<>>, FALSE, FALSE)
         /\ UNCHANGED <<instance, loadPc, ctorCalls, mem, bufGen, live, table,
                        pstackPos, mark, markPos, markOpen>>
    ELSE LET ptr == Len(table)
             grown == TableGrow(table, 1)
             ref == to_funcref(func, typeSection) IN
         /\ Len(table) < MaxTable
         /\ table' = IF ref.kind = "throw" THEN grown
                     ELSE TableSet(grown, ptr, Funcref(func, typeSection))
         /\ last' = Op(name, 0, 0, s,
                       IF ref.kind = "throw" THEN ref ELSE JsNum(ptr), <<>>,
                       TRUE, FALSE)
         /\ UNCHANGED <<instance, loadPc, ctorCalls, mem, bufGen, live,
                        pstackPos, mark, markPos, markOpen>>

\* install_function(func, sig)
InstallFunction(func, sig) ==
    Install("install_function", func, sig, SigTypeSection(sig))

\* install_function(func, resultType, ...argTypes)
InstallFunctionTyped(func, resultType, argTypes) ==
    Install("install_function_typed", func, <<resultType>> \o argTypes,
            TypedTypeSection(resultType, argTypes))

\* signatures explored: "v()", "i(pi)", "ip", "", "x(i)", "i(x)", "i(p"
Sigs == {<<"v", "(", ")">>, <<"i", "(", "p", "i", ")">>, <<"i", "p">>,
         <<>>, <<"x", "(", "i", ")">>, <<"i", "(", "x", ")">>, <<"i", "(", "p">>}
ResultTypes == {"null", "i32", "undefined", "x"}
ArgTypeLists == {<<>>, <<"i32", "f64">>, <<"x">>}

\* ------------------------------------------------------- specifications
Addrs == 0..(MemSize - 1)

\* the load protocol, for the load() calls in L
LoadStep(L) ==
    \/ \E l \in L : LoadStart(l)
    \/ \E l \in L : LoadResolve(l)
    \/ \E l \in L : LoadReject(l)

AllocStep(S) ==
    \/ \E n \in S : Alloc(n)
    \/ \E p \in live \cup {0} : Dealloc(p)
    \/ \E m \in live \cup {0}, n \in S : Realloc(m, n)

PstackStep(S) ==
    \/ \E n \in S : PstackAlloc(n)
    \/ PstackPtr
    \/ \E v \in RestoreArgs : PstackRestore(v)

TableStep(F, S, R, A) ==
    \/ FunctionTable
    \/ \E f \in F, sig \in S : InstallFunction(f, sig)
    \/ \E f \in F, r \in R, a \in A : InstallFunctionTyped(f, r, a)

StringStep ==
    \/ \E s \in Strings, p \in Addrs, k \in 0..MaxMax : AllocStr(s, p, k)
    \/ \E p \in Addrs : CstrToJs(p)
    \/ \E p \in Addrs : Cstrlen(p)
    \/ \E p \in Addrs : PeekPtr(p)
    \/ \E a \in Addrs \ {0}, b \in Bytes : DomainCall(a, b)

\* Spec: every operation of the API, in every state in which no instance is
\* stored and as the first call that finds one
FirstCalls == last.inst = 0
Next ==
    \/ FirstCalls /\ \E l \in {1} : LoadStart(l)
    \/ FirstCalls /\ \E l \in {1} : LoadResolve(l)
    \/ FirstCalls /\ \E l \in {1} : LoadReject(l)
    \/ FirstCalls /\ \E n \in Sizes : Alloc(n)
    \/ FirstCalls /\ \E p \in live \cup {0} : Dealloc(p)
    \/ FirstCalls /\ \E m \in live \cup {0}, n \in Sizes : Realloc(m, n)
    \/ FirstCalls /\ \E n \in PstackSizes : PstackAlloc(n)
    \/ FirstCalls /\ PstackPtr
    \/ FirstCalls /\ \E v \in RestoreArgs : PstackRestore(v)
    \/ FirstCalls /\ FunctionTable
    \/ FirstCalls /\ \E f \in HostVals, sig \in Sigs : InstallFunction(f, sig)
    \/ FirstCalls /\ \E f \in HostVals, r \in ResultTypes, a \in ArgTypeLists :
                        InstallFunctionTyped(f, r, a)
    \/ FirstCalls /\ \E s \in Strings, k \in 0..MaxMax : AllocStr(s, 0, k)

Spec == Init /\ [][Next]_vars

\* SpecLoad: repeated and overlapping load() calls, observed through getASM
NextLoad == LoadStep(Loads) \/ FunctionTable
SpecLoad == Init /\ [][NextLoad]_vars

\* SpecAlloc: the allocator bridge
NextAlloc == LoadStep({1}) \/ AllocStep(Sizes)
SpecAlloc == Init /\ [][NextAlloc]_vars

\* SpecPstack: the scratch stack
NextPstack == LoadStep({1}) \/ PstackStep(PstackSizes)
SpecPstack == Init /\ [][NextPstack]_vars

\* SpecTable: the trampoline builder
NextTable == LoadStep({1}) \/ TableStep(HostVals, Sigs, ResultTypes, ArgTypeLists)
SpecTable == Init /\ [][NextTable]_vars

\* SpecStr: the string marshaller, memory written by the module and grown
\* by its allocator
NextStr == LoadStep({1}) \/ StringStep \/ \E p \in live : Dealloc(p)
SpecStr == Init /\ [][NextStr]_vars

\* ------------------------------------------------------------- claims
InstallOps == {"install_function", "install_function_typed"}

\* the operations that go through getASM(); alloc_str does when it is given
\* no destination pointer
InstanceOps == {"alloc", "dealloc", "realloc", "pstack_alloc", "pstack_ptr",
                "pstack_restore", "function_table", "alloc_str"} \cup InstallOps
IsInstanceCall(o) == o.op \in InstanceOps /\ (o.op = "alloc_str" => o.n = 0)

\* C1 as stated: every instance-dependent call, realloc with size 0 included,
\* made while no instance is stored throws 'not initialized' and calls
\* nothing on a module; made once a load has resolved it does not throw
\* that error.
C1_GuardIncludingReallocZero ==
    IsInstanceCall(last) =>
        IF last.inst = 0
        THEN last.res = NotInitialized /\ last.calls = <<>> /\ ~last.compiled
        ELSE last.res # NotInitialized

\* C1 amended: every instance-dependent call other than realloc with size 0,
\* made while no instance is stored, throws 'not initialized' and calls
\* nothing on a module; realloc(m, 0) returns 0 there, also without a call;
\* made once a load has resolved, no call throws that error.
C1_LazyInitGuard ==
    IsInstanceCall(last) =>
        IF last.inst = 0
        THEN /\ last.calls = <<>>
             /\ ~last.compiled
             /\ last.res = IF last.op = "realloc" /\ last.n = 0 THEN JsNum(0)
                           ELSE NotInitialized
        ELSE last.res # NotInitialized

\* C1 witness: an install_function call made while a load is still pending
\* was refused
C1_Witness ==
    /\ last.op = "install_function"
    /\ loadPc[1] = "await"
    /\ last.inst = 0
    /\ last.res = NotInitialized
\* a NUL-terminated read of buffer contents m from address p: the bytes
\* before the first zero byte at or after p
RECURSIVE NulRead(_, _)
NulRead(m, p) ==
    IF p >= Len(m) \/ m[p + 1] = 0 THEN <<>> ELSE <<m[p + 1]>> \o NulRead(m, p + 1)

NoZeroByte(raw) == \A i \in 1..Len(raw) : raw[i] # 0

\* C2: for every string s whose encoding holds no zero byte, the empty string
\* included, cstr_to_js(alloc_str(s)[0]) is s, whatever memory held before.
C2_RoundTrip ==
    (/\ last.op = "alloc_str"
     /\ last.n = 0
     /\ last.m = 0
     /\ last.res.kind = "pair"
     /\ NoZeroByte(Encode(last.s)))
    => cstr_to_js(mem, bufGen, last.res.val) = JsStr(last.s)

\* C3: for 0 < k < byteLength(s), alloc_str(s, undefined, k), once its
\* allocation is granted (and without a growth of memory), returns length k and leaves the first k encoded
\* bytes of s at the returned pointer with a zero byte after them, so that a
\* NUL-terminated read from the pointer yields those k bytes.
C3_Truncation ==
    (/\ last.op = "alloc_str"
     /\ last.n = 0
     /\ last.inst # 0
     /\ last.m > 0
     /\ last.m < Len(Encode(last.s))
     /\ last.res # Throw("alloc failed")
     /\ ~last.stale)
    => /\ last.res.kind = "pair"
       /\ last.res.len = last.m
       /\ last.res.val + last.m < Len(mem)
       /\ mem[last.res.val + last.m + 1] = 0
       /\ NulRead(mem, last.res.val) = SubSeq(Encode(last.s), 1, last.m)

\* C4: after mark = pstack_ptr(), any number of pstack_alloc calls and
\* pstack_restore(mark), the module's scratch stack pointer is where it was
\* when the checkpoint was taken.
C4_RestoreReturnsToMark ==
    (last.op = "pstack_restore" /\ last.inst # 0 /\ last.m = 1)
    => pstackPos = markPos

\* C5: whenever an instance is stored (so that getASM() returns its exports)
\* its static-constructor entry point has been invoked exactly once.
C5_CtorsRunOnce ==
    instance # 0 => ctorCalls[instance] = 1

\* C6: every read or write of memory made by alloc_str, cstr_to_js, cstrlen
\* and peek_ptr goes through a view over the current buffer of the memory.
C6_ViewFresh ==
    last.op \in {"alloc_str", "cstr_to_js", "cstrlen", "peek_ptr"} => ~last.stale

\* C7: realloc(ptr, 0) returns 0, calls no export of the module, and leaves
\* the allocator (and every other part of the module) as it was.
C7_ReallocZero ==
    [][\A m \in Ptrs :
         Realloc(m, 0) =>
            /\ last'.res = JsNum(0)
            /\ last'.calls = <<>>
            /\ UNCHANGED <<instance, live, mem, bufGen, table, pstackPos>>]_vars

\* C7 witness: realloc(ptr, 0) was called on a live pointer of a loaded
\* module, and the pointer is still live
C7_Witness ==
    /\ last.op = "realloc"
    /\ last.n = 0
    /\ last.inst # 0
    /\ last.m # 0
    /\ last.m \in live

\* C8: once loaded, alloc(n) and realloc(ptr, n) with n > 0 return a nonzero
\* pointer or throw their allocation-failure error, and they throw whenever
\* the module's allocator returned null.
C8_AllocNeverNull ==
    (last.op \in {"alloc", "realloc"} /\ last.n > 0 /\ last.inst # 0)
    => /\ \/ last.res.kind = "num" /\ last.res.val # 0
          \/ last.res = Throw(IF last.op = "alloc" THEN "alloc failed"
                              ELSE "realloc failed")
       /\ Len(last.calls) = 1
       /\ last.calls[1].ret = 0 => last.res.kind = "throw"

\* C8 witness: the module's allocator returned null to alloc(n), n > 0
C8_Witness ==
    /\ last.op = "alloc"
    /\ last.n > 0
    /\ last.inst # 0
    /\ last.calls = <<Call("sqlite3_malloc", last.n, 0)>>
    /\ last.res = Throw("alloc failed")

InstallStep(f) ==
    \/ \E sig \in Sigs : InstallFunction(f, sig)
    \/ \E r \in ResultTypes, a \in ArgTypeLists : InstallFunctionTyped(f, r, a)

\* C9: a successful install_function returns the table length it found,
\* grows the table by exactly one slot, stores the trampoline of the given
\* function in that slot and leaves the other slots as they were; two
\* successful installs in a row return consecutive indices; the table of an
\* instance never shrinks.
C9_SlotAllocation ==
    [][/\ \A f \in HostVals :
            (InstallStep(f) /\ last'.res.kind = "num") =>
               /\ last'.res.val = Len(table)
               /\ Len(table') = Len(table) + 1
               /\ table'[Len(table) + 1].f = f
               /\ table'[Len(table) + 1].ts # <<>>
               /\ SubSeq(table', 1, Len(table)) = table
               /\ (last.op \in InstallOps /\ last.res.kind = "num")
                     => last'.res.val = last.res.val + 1
       /\ instance' = instance => Len(table') >= Len(table)]_vars

\* C9 witness: a second successful install returned the index after the first
C9_Witness ==
    /\ last.op \in InstallOps
    /\ last.res = JsNum(InitTableLen + 1)
    /\ Len(table) = InitTableLen + 2
    /\ table[InitTableLen + 1].f = "cb"
    /\ table[InitTableLen + 2].f = "cb"

SupportedLetters == {"i", "p", "s", "j", "f", "d"}
SupportedTypes == {"i32", "i64", "f32", "f64"}
AllIn(s, S) == \A i \in 1..Len(s) : s[i] \in S

\* a signature string: a result letter (or v) and parameter letters, the
\* parameters in parentheses or not
WellFormedSig(sig) ==
    /\ sig # <<>>
    /\ sig[1] \in SupportedLetters \cup {"v"}
    /\ LET rest == SubSeq(sig, 2, Len(sig)) IN
       \/ AllIn(rest, SupportedLetters)
       \/ /\ Len(rest) >= 2
          /\ rest[1] = "("
          /\ rest[Len(rest)] = ")"
          /\ AllIn(SubSeq(rest, 2, Len(rest) - 1), SupportedLetters)

\* the result type and argument types of the typed variant
WellFormedTypes(s) ==
    /\ s[1] \in SupportedTypes \cup {"null"}
    /\ AllIn(Tail(s), SupportedTypes)

Malformed(o) ==
    \/ o.op = "install_function" /\ ~WellFormedSig(o.s)
    \/ o.op = "install_function_typed" /\ ~WellFormedTypes(o.s)

\* C10: install_function given a malformed signature (empty, or with an
\* unsupported type code) fails before a WebAssembly.Module is constructed
\* from the encoded bytes.
C10_MalformedRejectedAtEncode ==
    (last.op \in InstallOps /\ last.inst # 0 /\ Malformed(last))
    => last.res.kind = "throw" /\ ~last.compiled

\* C11: under any interleaving of load() calls the stored instance changes
\* only in the step in which a load's instantiation resolves and is then the
\* instance that load linked, replacing any earlier one; a load that rejects
\* leaves the stored instance as it was; each load resolves with the exports
\* of the instance it linked itself; and getASM() observes either no instance
\* or an instance whose load has resolved, never that of a pending load.
C11_Singleton ==
    /\ [](instance = 0 \/ (instance \in Loads /\ loadPc[instance] = "resolved"))
    /\ [](last.op = "function_table" =>
             /\ last.res = IF last.inst = 0 THEN NotInitialized
                           ELSE JsObj(last.inst)
             /\ last.inst # 0 => loadPc[last.inst] = "resolved")
    /\ [][/\ instance' # instance =>
               \E l \in Loads : LoadResolve(l) /\ instance' = l
          /\ \A l \in Loads :
               LoadResolve(l) => instance' = l /\ last'.res = JsObj(l)
          /\ \A l \in Loads :
               LoadReject(l) => instance' = instance /\ last'.res.kind = "throw"
          /\ \A l \in Loads :
               LoadStart(l) => instance' = instance]_vars

\* C11 witness: two loads overlapped and resolved, the later resolution
\* replaced the earlier instance, a third load rejected after them and
\* getASM() then still observed the instance of the later resolution
C11_Witness ==
    /\ loadPc[1] = "resolved"
    /\ loadPc[2] = "resolved"
    /\ loadPc[3] = "rejected"
    /\ instance = 1
    /\ last.op = "function_table"
    /\ last.res = JsObj(1)

\* C12: a call alloc_str(s, ptr, max) that returns [ptr, len] has modified
\* only bytes at the addresses ptr .. ptr+len (at most len+1 bytes, the size
\* it asks alloc for when it allocates itself); every other byte of linear
\* memory is as it was before the call.
C12_WriteBounds ==
    [][\A s \in Strings, p \in Addrs, k \in 0..MaxMax :
          (AllocStr(s, p, k) /\ last'.res.kind = "pair") =>
             \A a \in 0..(Len(mem) - 1) :
                (a < last'.res.val \/ a > last'.res.val + last'.res.len)
                   => mem'[a + 1] = mem[a + 1]]_vars

\* C13: an install_function call that throws after a load (trampoline
\* synthesis failed for its signature or host function) leaves the
\* indirect-call table with the length and contents it had before the call,
\* so that the next successful install returns the index the failed one
\* would have returned.
C13_FailedInstallKeepsTable ==
    [][\A f \in HostVals :
          /\ (InstallStep(f) /\ instance # 0 /\ last'.res.kind = "throw")
                => table' = table
          /\ (/\ InstallStep(f)
              /\ last'.res.kind = "num"
              /\ last.op \in InstallOps
              /\ last.inst # 0
              /\ last.res.kind = "throw")
                => last'.res.val = last.tlen]_vars

====
